---- MODULE Spec2Model ----
(***************************************************************************)
(* Model of confluence-cli's page-tree replication: the `copy-tree`        *)
(* command (bin/confluence.js), ConfluenceClient.copyPageTree and          *)
(* copyChildrenRecursive, the dry-run discovery getAllDescendantPages,     *)
(* buildPageTree and the glob matcher (lib/confluence-client.js).          *)
(*                                                                         *)
(* The remote Confluence store is the variable `repo`.  Every await of a   *)
(* repository call is one action; the call either succeeds or fails, and   *)
(* the synchronous code that follows it up to the next await is part of    *)
(* the same action.  `calls` is the log of the calls issued so far.        *)
(***************************************************************************)
EXTENDS Integers, Sequences, FiniteSets, TLC

VARIABLES repo, phase, opts, stack, result, copyStatus, calls, exitCode, dryOut, fn,
          progress, config

vars ==
  <<repo, phase, opts, stack, result, copyStatus, calls, exitCode, dryOut, fn, progress,
    config>>

(***************************************************************************)
(* Bounds of the model.                                                    *)
(***************************************************************************)
\* Number of pages of the source tree (page 1 is the source root).
NumPages == 4
\* Largest --max-depth value tried.
MaxDepthBound == 2

(***************************************************************************)
(* Page ids.  Page 0 is the target parent, pages 1..NumPages the source    *)
(* tree, and the repository hands out NumPages+1, NumPages+2, ... to the   *)
(* pages it creates.  Null stands for JavaScript's null/undefined id.      *)
(***************************************************************************)
Null == -1
TargetPage == 0
SourceRoot == 1
SourcePages == 1..NumPages

(***************************************************************************)
(* Titles and patterns are sequences of one-character strings.             *)
(***************************************************************************)
TitleDocs == <<"D", "o", "c", "s">>
TitleTemp == <<"T", "m", "p">>
TitleApi == <<"A", "p", "i">>
TitleTarget == <<"H", "o", "m", "e">>
TitleNew == <<"N", "e", "w">>
ChildTitles == {TitleTemp, TitleApi}
SuffixCopy == <<" ", "(", "C", "o", "p", "y", ")">>
SuffixBak == <<".", "b", "a", "k">>
PatternTemp == <<"t", "m", "*">>

\* A value of the optional [newTitle] argument: omitted, or a string.
Omitted == [given |-> FALSE, value |-> <<>>]
Given(s) == [given |-> TRUE, value |-> s]

(***************************************************************************)
(* Pattern matcher: globToRegExp, RegExp.test, shouldExcludePage.          *)
(***************************************************************************)
\* The characters of the class /[.+^${}()|[\]\\]/ that globToRegExp escapes.
RegexMeta == {".", "+", "^", "$", "{", "}", "(", ")", "|", "[", "]", "\\"}
LineTerminators == {"\n", "\r"}

UpperChars == <<"A", "B", "C", "D", "E", "F", "G", "H", "I", "J", "K", "L", "M",
                "N", "O", "P", "Q", "R", "S", "T", "U", "V", "W", "X", "Y", "Z">>
LowerChars == <<"a", "b", "c", "d", "e", "f", "g", "h", "i", "j", "k", "l", "m",
                "n", "o", "p", "q", "r", "s", "t", "u", "v", "w", "x", "y", "z">>

\* Case folding of the 'i' flag.
FoldCase(c) ==
  IF \E k \in 1..Len(UpperChars) : UpperChars[k] = c
  THEN LowerChars[CHOOSE k \in 1..Len(UpperChars) : UpperChars[k] = c]
  ELSE c

\* Faulty variant of EscapeMeta: nothing is escaped.
EscapeMetaNothing(p) == p

\* pattern.replace(/[.+^${}()|[\]\\]/g, '\\$&')
RECURSIVE EscapeMeta(_)
EscapeMeta(p) ==
  IF p = <<>> THEN <<>>
  ELSE (IF Head(p) \in RegexMeta THEN <<"\\", Head(p)>> ELSE <<Head(p)>>)
       \o EscapeMeta(Tail(p))

\* s.replace(/<from>/g, <to>) for a one-character `from`.
RECURSIVE ReplaceAll(_, _, _)
ReplaceAll(s, from, to) ==
  IF s = <<>> THEN <<>>
  ELSE (IF Head(s) = from THEN to ELSE <<Head(s)>>) \o ReplaceAll(Tail(s), from, to)

\* The source text of the regular expression between ^ and $.
RegexSource(pattern) ==
  ReplaceAll(ReplaceAll(EscapeMeta(pattern), "*", <<".", "*">>), "?", <<".">>)

\* new RegExp(source): an escaped character is a literal, ".*" any run of
\* characters, "." any one character, every other character a literal.
RECURSIVE ParseRegex(_)
ParseRegex(src) ==
  IF src = <<>> THEN <<>>
  ELSE IF Head(src) = "\\" /\ Len(src) >= 2
       THEN <<[kind |-> "lit", ch |-> src[2]]>> \o ParseRegex(Tail(Tail(src)))
  ELSE IF Head(src) = "." /\ Len(src) >= 2 /\ src[2] = "*"
       THEN <<[kind |-> "star", ch |-> "."]>> \o ParseRegex(Tail(Tail(src)))
  ELSE IF Head(src) = "."
       THEN <<[kind |-> "any", ch |-> "."]>> \o ParseRegex(Tail(src))
  ELSE <<[kind |-> "lit", ch |-> Head(src)]>> \o ParseRegex(Tail(src))

\* A compiled pattern: the RegExp object `^source$` with its flags.
globToRegExp(pattern) ==
  [compiled |-> TRUE, tokens |-> ParseRegex(RegexSource(pattern)), flags |-> "i"]

\* "." of a regular expression matches any character but a line terminator.
DotMatches(c) == c \notin LineTerminators

LitMatches(tok, c, flags) ==
  IF flags = "i" THEN FoldCase(tok.ch) = FoldCase(c) ELSE tok.ch = c

\* The anchored match of a token list against a whole string.
RECURSIVE MatchTokens(_, _, _)
MatchTokens(toks, s, flags) ==
  IF toks = <<>> THEN s = <<>>
  ELSE LET t == Head(toks) IN
       IF t.kind = "star"
       THEN \/ MatchTokens(Tail(toks), s, flags)
            \/ /\ s # <<>>
               /\ DotMatches(Head(s))
               /\ MatchTokens(toks, Tail(s), flags)
       ELSE /\ s # <<>>
            /\ IF t.kind = "any" THEN DotMatches(Head(s)) ELSE LitMatches(t, Head(s), flags)
            /\ MatchTokens(Tail(toks), Tail(s), flags)

\* regex.test(title)
RegExpTest(rx, title) == MatchTokens(rx.tokens, title, rx.flags)

\* An element of a pattern list is a glob string or a compiled pattern
\* (pattern instanceof RegExp).
GlobString(text) == [compiled |-> FALSE, text |-> text]

\* The value of a `patterns` argument: null, undefined, one string, or an
\* array of pattern-list elements.
JsNull == [kind |-> "null"]
JsUndefined == [kind |-> "undefined"]
JsString(text) == [kind |-> "string", text |-> text]
JsArray(items) == [kind |-> "array", items |-> items]

\* !value, for the values above.
Falsy(value) ==
  \/ value.kind \in {"null", "undefined"}
  \/ value.kind = "string" /\ value.text = <<>>

\* Faulty variant of shouldExcludePage: every() instead of some().
shouldExcludePageEvery(title, excludePatterns) ==
  IF Falsy(excludePatterns) \/ Len(excludePatterns.items) = 0 THEN FALSE
  ELSE \A k \in 1..Len(excludePatterns.items) :
         IF excludePatterns.items[k].compiled
         THEN RegExpTest(excludePatterns.items[k], title)
         ELSE RegExpTest(globToRegExp(excludePatterns.items[k].text), title)

shouldExcludePage(title, excludePatterns) ==
  IF Falsy(excludePatterns) \/ Len(excludePatterns.items) = 0 THEN FALSE
  ELSE \E k \in 1..Len(excludePatterns.items) :
         IF excludePatterns.items[k].compiled
         THEN RegExpTest(excludePatterns.items[k], title)
         ELSE RegExpTest(globToRegExp(excludePatterns.items[k].text), title)

\* patterns.filter(Boolean): the empty strings of a list are dropped.
RECURSIVE FilterBoolean(_)
FilterBoolean(items) ==
  IF items = <<>> THEN <<>>
  ELSE (IF Head(items).text = <<>> THEN <<>> ELSE <<Head(items)>>)
       \o FilterBoolean(Tail(items))

\* Faulty variant of matchesPattern: an empty filter matches nothing.
matchesPatternEmptyIsFalse(value, patterns) ==
  IF Falsy(patterns) THEN FALSE
  ELSE LET list == IF patterns.kind = "array" THEN FilterBoolean(patterns.items)
                   ELSE <<GlobString(patterns.text)>>
       IN IF Len(list) = 0 THEN FALSE
          ELSE \E k \in 1..Len(list) : RegExpTest(globToRegExp(list[k].text), value)

matchesPattern(value, patterns) ==
  IF Falsy(patterns) THEN TRUE
  ELSE LET list == IF patterns.kind = "array" THEN FilterBoolean(patterns.items)
                   ELSE <<GlobString(patterns.text)>>
       IN IF Len(list) = 0 THEN TRUE
          ELSE \E k \in 1..Len(list) : RegExpTest(globToRegExp(list[k].text), value)

\* excludePatterns.filter(Boolean).map(p => this.globToRegExp(p))
RECURSIVE CompileExclude(_)
CompileExclude(excludePatterns) ==
  IF excludePatterns = <<>> THEN <<>>
  ELSE (IF Head(excludePatterns).text = <<>> THEN <<>>
        ELSE <<globToRegExp(Head(excludePatterns).text)>>)
       \o CompileExclude(Tail(excludePatterns))

\* (compiledExclude && compiledExclude.length) ? compiledExclude : excludePatterns
ActivePatterns(compiledExclude, excludePatterns) ==
  IF Len(compiledExclude) > 0 THEN compiledExclude ELSE excludePatterns

(***************************************************************************)
(* The repository (the remote store) and its calls.                        *)
(***************************************************************************)
RECURSIVE SortedSeq(_)
SortedSeq(S) ==
  IF S = {} THEN <<>>
  ELSE LET m == CHOOSE x \in S : \A y \in S : x <= y
       IN <<m>> \o SortedSeq(S \ {m})

\* The id the repository gives to the next page it creates.
NextId(r) == (CHOOSE x \in DOMAIN r : \A y \in DOMAIN r : y <= x) + 1

\* GET /content/{id}/child/page, mapped to {id, title}: the direct children
\* of pageId, in the order the repository lists them (by id).
getChildPages(r, pageId) ==
  LET ids == SortedSeq({q \in DOMAIN r : r[q].parent = pageId})
  IN [k \in 1..Len(ids) |-> [id |-> ids[k], title |-> r[ids[k]].title]]

\* A page of the repository.
StoredPage(title, parentId, content, spaceKey) ==
  [title |-> title, parent |-> parentId, content |-> content, space |-> spaceKey]

\* The body a source page holds, in storage format, and the space a page of
\* the initial repository reports: the target parent is in one space, the
\* source root in another, and every second source page reports a third.
SourceBody(pageId) == [of |-> pageId, form |-> "storage"]
SpaceOf(pageId) ==
  IF pageId = TargetPage THEN "ARCH" ELSE IF pageId % 2 = 0 THEN "OTHER" ELSE "DOCS"

\* getPageForEdit(id): id, title, body.storage.value and space of the page.
getPageForEdit(r, pageId) ==
  [id |-> pageId, title |-> r[pageId].title, content |-> r[pageId].content,
   space |-> [key |-> r[pageId].space]]

\* getPageInfo(id): the space of the page is what copyPageTree reads of it.
getPageInfo(r, pageId) == [title |-> r[pageId].title, space |-> [key |-> r[pageId].space]]

\* this.markdownToStorage(content): a conversion of the body.
markdownToStorage(content) == [content EXCEPT !.form = "converted"]

\* Faulty variant of StorageContent: the body is converted whatever the format.
StorageContentConverted(content, format) == markdownToStorage(content)

\* createChildPage: storageContent, the body that is posted.
StorageContent(content, format) ==
  IF format = "markdown" THEN markdownToStorage(content) ELSE content

\* POST /content with ancestors [{id: parentId}]: the repository after the
\* creation, and response.data.
CreatedPage(r, title, spaceKey, parentId, content, format) ==
  [id |-> NextId(r), title |-> title, parentId |-> parentId,
   content |-> StorageContent(content, format), space |-> spaceKey]

\* Faulty variant of RepoWith: the creation overwrites the source root
\* instead of adding a page.
RepoWithOverwrite(r, page) ==
  [q \in DOMAIN r |->
     IF q = SourceRoot
     THEN StoredPage(page.title, page.parentId, page.content, page.space)
     ELSE r[q]]

RepoWith(r, page) ==
  [q \in DOMAIN r \cup {page.id} |->
     IF q = page.id
     THEN StoredPage(page.title, page.parentId, page.content, page.space)
     ELSE r[q]]

\* One entry of the log of repository calls.  `page` is the page the call is
\* about (for a creation: the source page whose copy is being created).
Call(op, page, ok) ==
  [op |-> op, page |-> page, ok |-> ok, title |-> <<>>, parent |-> Null, id |-> Null]

CreateCall(page, title, spaceKey, parentId, content, format, ok, newId) ==
  [op |-> "createChildPage", page |-> page, ok |-> ok, title |-> title,
   parent |-> parentId, id |-> newId, space |-> spaceKey, content |-> content,
   format |-> format]

SleepCall(ms) ==
  [op |-> "sleep", page |-> Null, ok |-> TRUE, title |-> <<>>, parent |-> Null, id |-> ms]

(***************************************************************************)
(* The copy-tree command line.                                             *)
(***************************************************************************)
CommandLine(newTitle, maxDepth, exclude, delayMs, copySuffix, dryRun, failOnError) ==
  [sourcePageId |-> SourceRoot, targetParentId |-> TargetPage, newTitle |-> newTitle,
   maxDepth |-> maxDepth, excludePatterns |-> exclude, delayMs |-> delayMs,
   copySuffix |-> copySuffix, dryRun |-> dryRun, failOnError |-> failOnError,
   spaceKey |-> "", onProgress |-> "prints", quiet |-> FALSE]

DefaultDelayMs == 100

\* The command lines tried: every depth, with and without an exclusion
\* pattern, live and dry-run; then the title, pacing and exit-code flags.
CommandLines ==
  {CommandLine(Omitted, d, x, DefaultDelayMs, SuffixCopy, dry, FALSE) :
     d \in 0..MaxDepthBound, x \in {<<>>, <<GlobString(PatternTemp)>>}, dry \in BOOLEAN}
  \cup {CommandLine(t, MaxDepthBound, <<GlobString(PatternTemp)>>, DefaultDelayMs, sfx, dry,
               FALSE) :
     t \in {Omitted, Given(<<>>), Given(TitleNew)}, sfx \in {SuffixCopy, SuffixBak},
     dry \in BOOLEAN}
  \cup {CommandLine(Omitted, MaxDepthBound, x, ms, SuffixCopy, FALSE, foe) :
     x \in {<<>>, <<GlobString(PatternTemp)>>}, ms \in {0, DefaultDelayMs}, foe \in BOOLEAN}

\* The onProgress option: no sink, a sink that prints the line (the one the
\* command passes), or a sink that throws when it is invoked.
Sinks == {"none", "prints", "throws"}

\* if (!quiet && onProgress)
Emits(o) == ~o.quiet /\ o.onProgress # "none"

\* The sink throws when it is invoked.  A sink that throws does so at its
\* first invocation, which is the one before the root copy is created.
SinkThrows(o) == Emits(o) /\ o.onProgress = "throws"

\* The log of the lines handed to the sink, after onProgress(line) under
\* the test above.
Emitted(log, o, line) == IF Emits(o) THEN Append(log, line) ELSE log

NoOpts == CommandLine(Omitted, 0, <<>>, 0, <<>>, FALSE, FALSE)

\* Faulty variant of FinalTitle: newTitle ?? ..., only an omitted newTitle falls back.
FinalTitleNullish(newTitle, sourceTitle, copySuffix) ==
  IF newTitle.given THEN newTitle.value ELSE sourceTitle \o copySuffix

\* newTitle || `${title}${copySuffix}`: an omitted or empty newTitle is falsy.
FinalTitle(newTitle, sourceTitle, copySuffix) ==
  IF newTitle.given /\ newTitle.value # <<>>
  THEN newTitle.value
  ELSE sourceTitle \o copySuffix

\* Faulty variant of StartPhase: the --dry-run flag is not looked at.
StartPhaseAlwaysLive(dryRun) == "fetchRoot"

\* if (options.dryRun) { ... return; } else copyPageTree(...)
StartPhase(dryRun) == IF dryRun THEN "dryInfo" ELSE "fetchRoot"

(***************************************************************************)
(* State.                                                                  *)
(*   repo       the pages of the store: id -> [title, parent, content,     *)
(*              space]                                                     *)
(*   phase      where the copy-tree command is                             *)
(*   opts       the parsed command line                                    *)
(*   stack      the frames of the running recursion, innermost last        *)
(*   result     copyPageTree's result object                               *)
(*   copyStatus whether copyPageTree was called, returned or threw         *)
(*   calls      every repository call (and pause) so far, in order         *)
(*   exitCode   the process exit code once the command is done             *)
(*   dryOut     what the dry-run branch reports                            *)
(*   fn         the last direct call of one of the client's synchronous    *)
(*              helpers: its name, arguments and return value              *)
(***************************************************************************)
NoResult == [rootPage |-> Null, copiedPages |-> <<>>, failures |-> <<>>, totalCopied |-> 0]
NoDryOut ==
  [rootTitle |-> <<>>, descendants |-> <<>>, filtered |-> <<>>, count |-> Null,
   tree |-> <<>>]
NoFn == [name |-> "none", args |-> <<>>, ret |-> FALSE]

\* A frame of copyChildrenRecursive or getAllDescendantPages.
Frame(sourceParentId, targetParentId, currentDepth) ==
  [src |-> sourceParentId, tgt |-> targetParentId, depth |-> currentDepth,
   children |-> <<>>, i |-> 0, pc |-> "enter", acc |-> <<>>, newPage |-> Null]

Top(stk) == stk[Len(stk)]
Pop(stk) == SubSeq(stk, 1, Len(stk) - 1)
SetTop(stk, f) == [stk EXCEPT ![Len(stk)] = f]

\* The source trees: page p > 1 is a child of an earlier page.
ParentMaps == {par \in [2..NumPages -> SourcePages] : \A p \in 2..NumPages : par[p] < p}

Init ==
  /\ \E par \in ParentMaps, ttl \in [2..NumPages -> ChildTitles] :
       repo = [p \in {TargetPage} \cup SourcePages |->
                 IF p = TargetPage
                 THEN StoredPage(TitleTarget, Null, SourceBody(p), SpaceOf(p))
                 ELSE IF p = SourceRoot
                 THEN StoredPage(TitleDocs, Null, SourceBody(p), SpaceOf(p))
                 ELSE StoredPage(ttl[p], par[p], SourceBody(p), SpaceOf(p))]
  /\ phase = "idle"
  /\ opts = NoOpts
  /\ stack = <<>>
  /\ result = NoResult
  /\ copyStatus = "notCalled"
  /\ calls = <<>>
  /\ exitCode = Null
  /\ dryOut = NoDryOut
  /\ fn = NoFn
  /\ progress = <<>>
  /\ config = "notLoaded"

\* What loading the configuration and constructing the client come to:
\* getConfig() returns a configuration the constructor accepts; or it finds
\* no configuration, or cannot parse the configuration file, and ends the
\* process with code 1; or the constructor throws (basic authentication
\* without an email address) and the command's catch block ends the process
\* with code 1.
ConfigOutcomes == {"loaded", "missing", "unreadable", "rejected"}

\* A client was constructed.
ClientReady(cfg) == cfg = "loaded"

\* The start of the copy-tree action in a new process:
\* const config = getConfig(); const client = new ConfluenceClient(config);
\* then the options are parsed and the dry-run or the live branch is taken.
\* Without a client the process ends with code 1 before any repository call.
CommandStarts(cmd, cfg) ==
  /\ opts' = cmd
  /\ config' = cfg
  /\ IF ClientReady(cfg)
     THEN /\ phase' = StartPhase(cmd.dryRun)
          /\ copyStatus' = IF StartPhase(cmd.dryRun) = "fetchRoot" THEN "running" ELSE "notCalled"
          /\ exitCode' = Null
     ELSE /\ phase' = "done"
          /\ copyStatus' = "notCalled"
          /\ exitCode' = 1

\* The copy-tree action up to its first repository call.
CopyTreeCmd ==
  /\ phase = "idle"
  /\ \E cmd \in CommandLines, cfg \in ConfigOutcomes : CommandStarts(cmd, cfg)
  /\ UNCHANGED <<repo, stack, result, calls, dryOut, fn, progress>>

(***************************************************************************)
(* copyPageTree: the root.                                                 *)
(***************************************************************************)
\* The command's catch block: process.exit(1).
CommandFails ==
  /\ phase' = "done"
  /\ exitCode' = 1

\* const sourcePage = await this.getPageForEdit(sourcePageId)
FetchRoot ==
  /\ phase = "fetchRoot"
  /\ \E ok \in BOOLEAN :
       /\ calls' = Append(calls, Call("getPageForEdit", opts.sourcePageId, ok))
       /\ IF ok
          THEN phase' = "infoRoot" /\ UNCHANGED <<exitCode, copyStatus>>
          ELSE CommandFails /\ copyStatus' = "threw"
  /\ UNCHANGED <<repo, opts, stack, result, dryOut, fn, progress, config>>

\* Faulty variant of InfoRoot: a failed getPageInfo is swallowed.
InfoRootSwallowsError ==
  /\ phase = "infoRoot"
  /\ \E ok \in BOOLEAN :
       calls' = Append(calls, Call("getPageInfo", opts.sourcePageId, ok))
  /\ phase' = "createRoot"
  /\ opts' = [opts EXCEPT !.spaceKey = getPageInfo(repo, opts.sourcePageId).space.key]
  /\ UNCHANGED <<repo, stack, result, dryOut, exitCode, copyStatus, fn, progress, config>>

\* const sourceInfo = await this.getPageInfo(sourcePageId); its space key is
\* the spaceKey handed to copyChildrenRecursive.
InfoRoot ==
  /\ phase = "infoRoot"
  /\ \E ok \in BOOLEAN :
       /\ calls' = Append(calls, Call("getPageInfo", opts.sourcePageId, ok))
       /\ IF ok
          THEN /\ opts' = [opts EXCEPT
                             !.spaceKey = getPageInfo(repo, opts.sourcePageId).space.key]
               /\ progress' = Emitted(progress, opts, "root")
               /\ IF SinkThrows(opts)
                  THEN CommandFails /\ copyStatus' = "threw"
                  ELSE phase' = "createRoot" /\ UNCHANGED <<exitCode, copyStatus>>
          ELSE CommandFails /\ copyStatus' = "threw" /\ UNCHANGED <<opts, progress>>
  /\ UNCHANGED <<repo, stack, result, dryOut, fn, config>>

\* What the first call of copyChildrenRecursive starts from.
RootFrame(sourcePageId, newRootPage) == Frame(sourcePageId, newRootPage.id, 0)

\* const newRootPage = await this.createChildPage(finalTitle, ..., targetParentId, ...)
\* then the result object and the first call of copyChildrenRecursive.
CreateRoot ==
  /\ phase = "createRoot"
  /\ LET sourcePage == getPageForEdit(repo, opts.sourcePageId)
         finalTitle == FinalTitle(opts.newTitle, sourcePage.title, opts.copySuffix)
         newRootPage == CreatedPage(repo, finalTitle, opts.spaceKey, opts.targetParentId,
                                    sourcePage.content, "storage")
     IN \E ok \in BOOLEAN :
          /\ calls' = Append(calls, CreateCall(opts.sourcePageId, finalTitle, opts.spaceKey,
                                               opts.targetParentId, sourcePage.content,
                                               "storage", ok,
                                               IF ok THEN newRootPage.id ELSE Null))
          /\ IF ok
             THEN /\ repo' = RepoWith(repo, newRootPage)
                  /\ result' = [rootPage |-> newRootPage, copiedPages |-> <<newRootPage>>,
                                failures |-> <<>>, totalCopied |-> 1]
                  /\ stack' = <<RootFrame(opts.sourcePageId, newRootPage)>>
                  /\ phase' = "copying"
                  /\ progress' = Emitted(progress, opts, "rootCreated")
                  /\ UNCHANGED <<exitCode, copyStatus>>
             ELSE /\ CommandFails
                  /\ copyStatus' = "threw"
                  /\ UNCHANGED <<repo, result, stack, progress>>
  /\ UNCHANGED <<opts, dryOut, fn, config>>

(***************************************************************************)
(* copyChildrenRecursive.                                                  *)
(***************************************************************************)
\* Faulty variant of DepthReached: > instead of >=.
DepthReachedOffByOne(currentDepth, maxDepth) == currentDepth > maxDepth

\* Faulty variant of DepthReached: the depth check never stops the recursion.
DepthReachedNever(currentDepth, maxDepth) == FALSE


\* if (currentDepth >= maxDepth) return;
DepthReached(currentDepth, maxDepth) == currentDepth >= maxDepth

\* The entry pushed on result.failures by the catch block.
Failure(child) == [id |-> child.id, title |-> child.title]

\* Faulty variant of NextSibling: the loop steps over the following sibling.
NextSiblingSkipsOne(f) == [f EXCEPT !.i = @ + 2, !.pc = "loop", !.newPage = Null]

\* The loop goes on with the next sibling (after `continue`, or after the
\* recursive call at the end of the try block returned).
NextSibling(f) == [f EXCEPT !.i = @ + 1, !.pc = "loop", !.newPage = Null]

\* Faulty variant of AfterCatch: the catch block leaves the loop.
AfterCatchBreak(f) == [f EXCEPT !.i = Len(f.children) + 1, !.pc = "loop", !.newPage = Null]

\* Faulty variant of AfterCatch: the catch block tries the same child again.
AfterCatchRetry(f) == [f EXCEPT !.pc = "loop", !.newPage = Null]

\* The catch block ends with `continue`.
AfterCatch(f) == NextSibling(f)

\* Faulty variant of ChildFrame: the recursion keeps the caller's target parent.
ChildFrameSameTarget(f, child, newPageId) == Frame(child.id, f.tgt, f.depth + 1)

\* Faulty variant of ChildExcluded: the exclusion test never skips.
ChildExcludedNever(child, excludePatterns, compiledExclude) == FALSE

\* const patterns = ...; if (this.shouldExcludePage(child.title, patterns))
ChildExcluded(child, excludePatterns, compiledExclude) ==
  shouldExcludePage(child.title, JsArray(ActivePatterns(compiledExclude, excludePatterns)))

\* Faulty variant of ChildFrame: the recursion creates under the original
\* target parent.
ChildFrameUnderTarget(f, child, newPageId) == Frame(child.id, opts.targetParentId, f.depth + 1)

\* this.copyChildrenRecursive(child.id, newPage.id, currentDepth + 1, opts, result)
ChildFrame(f, child, newPageId) == Frame(child.id, newPageId, f.depth + 1)

\* Faulty variant of ExitCodeFor: any failure gives exit code 1, with or
\* without --fail-on-error.
ExitCodeForAnyFailure(res, failOnError) ==
  IF Len(res.failures) > 0 THEN 1 ELSE 0

\* if (options.failOnError && result.failures?.length) process.exit(1)
ExitCodeFor(res, failOnError) ==
  IF failOnError /\ Len(res.failures) > 0 THEN 1 ELSE 0

\* Faulty variant of CopyReturns: totalCopied is not recomputed when
\* copyPageTree returns.
CopyReturnsStaleTotal ==
  LET rest == Pop(stack) IN
  IF rest = <<>>
  THEN /\ stack' = <<>>
       /\ result' = result
       /\ copyStatus' = "returned"
       /\ phase' = "done"
       /\ exitCode' = ExitCodeFor(result, opts.failOnError)
       /\ UNCHANGED progress
  ELSE /\ stack' = SetTop(rest, NextSibling(Top(rest)))
       /\ UNCHANGED <<result, copyStatus, phase, exitCode, progress>>

\* The top frame returns.  Its caller is another frame, which goes on with
\* its next sibling, or copyPageTree, which sets totalCopied and returns to
\* the command.
CopyReturns ==
  LET rest == Pop(stack) IN
  IF rest = <<>>
  THEN /\ stack' = <<>>
       /\ result' = [result EXCEPT !.totalCopied = Len(result.copiedPages)]
       /\ copyStatus' = "returned"
       /\ phase' = "done"
       /\ exitCode' = ExitCodeFor(result, opts.failOnError)
       /\ UNCHANGED progress
  ELSE /\ stack' = SetTop(rest, NextSibling(Top(rest)))
       /\ UNCHANGED <<result, copyStatus, phase, exitCode, progress>>

\* The top frame throws.  The recursive call sits inside the caller's try
\* block, so the caller's catch records the caller's current child; the
\* first call is not in a try block, so copyPageTree throws.
CopyThrows ==
  LET rest == Pop(stack) IN
  IF rest = <<>>
  THEN /\ stack' = <<>>
       /\ copyStatus' = "threw"
       /\ CommandFails
       /\ UNCHANGED <<result, progress>>
  ELSE LET caller == Top(rest) IN
       /\ stack' = SetTop(rest, AfterCatch(caller))
       /\ result' = [result EXCEPT
                       !.failures = Append(@, Failure(caller.children[caller.i]))]
       /\ progress' = Emitted(progress, opts, "failed")
       /\ UNCHANGED <<copyStatus, phase, exitCode>>

\* Faulty variant of CopyEnter: the children are gone through from the last
\* listed to the first.
CopyEnterReversed ==
  /\ phase = "copying"
  /\ Top(stack).pc = "enter"
  /\ LET f == Top(stack)
         listed == getChildPages(repo, f.src)
     IN
     IF DepthReached(f.depth, opts.maxDepth)
     THEN CopyReturns /\ UNCHANGED calls
     ELSE \E ok \in BOOLEAN :
            /\ calls' = Append(calls, Call("getChildPages", f.src, ok))
            /\ IF ok
               THEN /\ stack' = SetTop(stack,
                         [f EXCEPT !.children = [k \in 1..Len(listed) |->
                                                   listed[Len(listed) + 1 - k]],
                                   !.i = 1, !.pc = "loop"])
                    /\ UNCHANGED <<result, copyStatus, phase, exitCode, progress>>
               ELSE CopyThrows
  /\ UNCHANGED <<repo, opts, dryOut, fn, config>>

\* Entry of copyChildrenRecursive: the depth check, then
\* const children = await this.getChildPages(sourceParentId)
CopyEnter ==
  /\ phase = "copying"
  /\ Top(stack).pc = "enter"
  /\ LET f == Top(stack) IN
     IF DepthReached(f.depth, opts.maxDepth)
     THEN CopyReturns /\ UNCHANGED calls
     ELSE \E ok \in BOOLEAN :
            /\ calls' = Append(calls, Call("getChildPages", f.src, ok))
            /\ IF ok
               THEN /\ stack' = SetTop(stack, [f EXCEPT !.children = getChildPages(repo, f.src),
                                                         !.i = 1, !.pc = "loop"])
                    /\ UNCHANGED <<result, copyStatus, phase, exitCode, progress>>
               ELSE CopyThrows
  /\ UNCHANGED <<repo, opts, dryOut, fn, config>>

\* Head of the for loop: the end of the list, or the exclusion test.
CopyLoop ==
  /\ phase = "copying"
  /\ Top(stack).pc = "loop"
  /\ LET f == Top(stack)
         compiledExclude == CompileExclude(opts.excludePatterns)
     IN IF f.i > Len(f.children)
        THEN CopyReturns
        ELSE /\ IF ChildExcluded(f.children[f.i], opts.excludePatterns, compiledExclude)
                THEN /\ stack' = SetTop(stack, NextSibling(f))
                     /\ progress' = Emitted(progress, opts, "skipped")
                ELSE /\ stack' = SetTop(stack, [f EXCEPT !.pc = "fetch"])
                     /\ progress' = Emitted(progress, opts, "copying")
             /\ UNCHANGED <<result, copyStatus, phase, exitCode>>
  /\ UNCHANGED <<repo, opts, calls, dryOut, fn, config>>

\* const fullChild = await this.getPageForEdit(child.id)
CopyFetch ==
  /\ phase = "copying"
  /\ Top(stack).pc = "fetch"
  /\ LET f == Top(stack)
         child == f.children[f.i]
     IN \E ok \in BOOLEAN :
          /\ calls' = Append(calls, Call("getPageForEdit", child.id, ok))
          /\ IF ok
             THEN /\ stack' = SetTop(stack, [f EXCEPT !.pc = "create"])
                  /\ UNCHANGED <<result, progress>>
             ELSE /\ stack' = SetTop(stack, AfterCatch(f))
                  /\ result' = [result EXCEPT !.failures = Append(@, Failure(child))]
                  /\ progress' = Emitted(progress, opts, "failed")
  /\ UNCHANGED <<repo, opts, copyStatus, phase, exitCode, dryOut, fn, config>>

\* if (delayMs > 0 && i < children.length - 1), with i counted from 1 here.
PauseDue(f, delayMs) == delayMs > 0 /\ f.i < Len(f.children)

\* const newPage = await this.createChildPage(fullChild.title, spaceKey,
\* targetParentId, ...); result.copiedPages.push(newPage); then the pause or
\* the recursive call.
CopyCreate ==
  /\ phase = "copying"
  /\ Top(stack).pc = "create"
  /\ LET f == Top(stack)
         child == f.children[f.i]
         fullChild == getPageForEdit(repo, child.id)
         newPage == CreatedPage(repo, fullChild.title, opts.spaceKey, f.tgt,
                                fullChild.content, "storage")
     IN \E ok \in BOOLEAN :
          /\ calls' = Append(calls, CreateCall(child.id, fullChild.title, opts.spaceKey,
                                               f.tgt, fullChild.content, "storage", ok,
                                               IF ok THEN newPage.id ELSE Null))
          /\ IF ok
             THEN /\ repo' = RepoWith(repo, newPage)
                  /\ result' = [result EXCEPT !.copiedPages = Append(@, newPage)]
                  /\ progress' = Emitted(progress, opts, "created")
                  /\ IF PauseDue(f, opts.delayMs)
                     THEN stack' = SetTop(stack, [f EXCEPT !.pc = "sleep",
                                                           !.newPage = newPage.id])
                     ELSE stack' = Append(SetTop(stack, [f EXCEPT !.pc = "wait",
                                                                  !.newPage = newPage.id]),
                                          ChildFrame(f, child, newPage.id))
             ELSE /\ stack' = SetTop(stack, AfterCatch(f))
                  /\ result' = [result EXCEPT !.failures = Append(@, Failure(child))]
                  /\ progress' = Emitted(progress, opts, "failed")
                  /\ UNCHANGED repo
  /\ UNCHANGED <<opts, copyStatus, phase, exitCode, dryOut, fn, config>>

\* await new Promise(resolve => setTimeout(resolve, delayMs)), then the
\* recursive call.
CopySleep ==
  /\ phase = "copying"
  /\ Top(stack).pc = "sleep"
  /\ LET f == Top(stack)
         child == f.children[f.i]
     IN /\ calls' = Append(calls, SleepCall(opts.delayMs))
        /\ stack' = Append(SetTop(stack, [f EXCEPT !.pc = "wait"]),
                           ChildFrame(f, child, f.newPage))
  /\ UNCHANGED <<repo, opts, result, copyStatus, phase, exitCode, dryOut, fn, progress, config>>

(***************************************************************************)
(* The dry-run branch of the command and getAllDescendantPages.            *)
(***************************************************************************)
\* const info = await client.getPageInfo(sourcePageId), then the first call
\* of getAllDescendantPages(sourcePageId, maxDepth).
DryInfo ==
  /\ phase = "dryInfo"
  /\ \E ok \in BOOLEAN :
       /\ calls' = Append(calls, Call("getPageInfo", opts.sourcePageId, ok))
       /\ IF ok
          THEN /\ phase' = "discover"
               /\ stack' = <<Frame(opts.sourcePageId, Null, 0)>>
               /\ dryOut' = [dryOut EXCEPT
                     !.rootTitle = FinalTitle(opts.newTitle, repo[opts.sourcePageId].title,
                                              opts.copySuffix)]
               /\ UNCHANGED exitCode
          ELSE /\ CommandFails
               /\ UNCHANGED <<stack, dryOut>>
  /\ UNCHANGED <<repo, opts, result, copyStatus, fn, progress, config>>

\* Faulty variant of WithParent: every page is annotated with the root of the
\* discovery instead of its direct parent.
WithParentRoot(children, pageId) ==
  [k \in 1..Len(children) |->
     [id |-> children[k].id, title |-> children[k].title, parentId |-> SourceRoot]]

\* children.map(child => ({ ...child, parentId: pageId }))
WithParent(children, pageId) ==
  [k \in 1..Len(children) |->
     [id |-> children[k].id, title |-> children[k].title, parentId |-> pageId]]

\* descendants.filter(p => !client.shouldExcludePage(p.title, excludePatterns))
RECURSIVE FilterExcluded(_, _)
FilterExcluded(pages, excludePatterns) ==
  IF pages = <<>> THEN <<>>
  ELSE (IF shouldExcludePage(Head(pages).title, JsArray(excludePatterns)) THEN <<>>
        ELSE <<Head(pages)>>)
       \o FilterExcluded(Tail(pages), excludePatterns)

\* The ids of the nodes of a list, in list order.
IdsOf(pages) == [k \in 1..Len(pages) |-> pages[k].id]

\* pageMap.has(id)
InPageMap(pages, id) == \E k \in 1..Len(pages) : pages[k].id = id

\* Faulty variant of buildPageTree: a page whose parent is missing from the
\* list is not pushed on the tree.
buildPageTreeDropsOrphans(pages, rootPageId) ==
  LET linked(page) == page.parentId # Null /\ InPageMap(pages, page.parentId)
      top(page) == ~linked(page) /\ (page.parentId = rootPageId \/ page.parentId = Null)
  IN [tree |-> IdsOf(SelectSeq(pages, top)),
      children |-> [id \in {pages[k].id : k \in 1..Len(pages)} |->
                      LET under(page) == linked(page) /\ page.parentId = id
                      IN IdsOf(SelectSeq(pages, under))]]

\* buildPageTree(pages, rootPageId).  The nodes are named by their ids:
\* `tree` lists the top-level nodes and children[id] the node's children
\* array, both in the order of the pushes.
buildPageTree(pages, rootPageId) ==
  LET linked(page) == page.parentId # Null /\ InPageMap(pages, page.parentId)
      top(page) == ~linked(page)
  IN [tree |-> IdsOf(SelectSeq(pages, top)),
      children |-> [id \in {pages[k].id : k \in 1..Len(pages)} |->
                      LET under(page) == linked(page) /\ page.parentId = id
                      IN IdsOf(SelectSeq(pages, under))]]

\* The top frame of getAllDescendantPages returns `descendants`: to its
\* caller, which appends them, or to the command, which filters, counts
\* and prints them.
DiscReturns(descendants) ==
  LET rest == Pop(stack) IN
  IF rest = <<>>
  THEN LET filtered == FilterExcluded(descendants, opts.excludePatterns) IN
       /\ stack' = <<>>
       /\ dryOut' = [dryOut EXCEPT !.descendants = descendants,
                                   !.filtered = filtered,
                                   !.count = Len(filtered),
                                   !.tree = buildPageTree(filtered, opts.sourcePageId)]
       /\ phase' = "done"
       /\ exitCode' = 0
  ELSE /\ stack' = SetTop(rest, [Top(rest) EXCEPT !.acc = @ \o descendants,
                                                  !.i = @ + 1, !.pc = "loop"])
       /\ UNCHANGED <<dryOut, phase, exitCode>>

\* Entry of getAllDescendantPages: the depth check, then
\* const children = await this.getChildPages(pageId).  Nothing catches a
\* failed listing before the command's catch block.
DiscEnter ==
  /\ phase = "discover"
  /\ Top(stack).pc = "enter"
  /\ LET f == Top(stack) IN
     IF DepthReached(f.depth, opts.maxDepth)
     THEN DiscReturns(<<>>) /\ UNCHANGED calls
     ELSE \E ok \in BOOLEAN :
            /\ calls' = Append(calls, Call("getChildPages", f.src, ok))
            /\ IF ok
               THEN LET children == getChildPages(repo, f.src) IN
                    /\ stack' = SetTop(stack, [f EXCEPT !.children = children,
                                                         !.acc = WithParent(children, f.src),
                                                         !.i = 1, !.pc = "loop"])
                    /\ UNCHANGED <<dryOut, phase, exitCode>>
               ELSE /\ stack' = <<>>
                    /\ CommandFails
                    /\ UNCHANGED dryOut
  /\ UNCHANGED <<repo, opts, result, copyStatus, fn, progress, config>>

\* for (const child of children): the recursive call for the next child, or
\* return allDescendants.
DiscLoop ==
  /\ phase = "discover"
  /\ Top(stack).pc = "loop"
  /\ LET f == Top(stack) IN
     IF f.i > Len(f.children)
     THEN DiscReturns(f.acc)
     ELSE /\ stack' = Append(SetTop(stack, [f EXCEPT !.pc = "wait"]),
                             Frame(f.children[f.i].id, Null, f.depth + 1))
          /\ UNCHANGED <<dryOut, phase, exitCode>>
  /\ UNCHANGED <<repo, opts, result, copyStatus, calls, fn, progress, config>>

\* The same command line run again without --dry-run, after a dry run that
\* completed: a new process, which loads the configuration again, so a
\* fresh call log and exit code; what the dry run reported is kept beside it.
CopyTreeAfterDryRun ==
  /\ phase = "done"
  /\ opts.dryRun
  /\ exitCode = 0
  /\ \E cfg \in ConfigOutcomes : CommandStarts([opts EXCEPT !.dryRun = FALSE], cfg)
  /\ calls' = <<>>
  /\ UNCHANGED <<repo, stack, result, dryOut, fn, progress>>

Next ==
  \/ CopyTreeCmd
  \/ CopyTreeAfterDryRun
  \/ FetchRoot
  \/ InfoRoot
  \/ CreateRoot
  \/ CopyEnter
  \/ CopyLoop
  \/ CopyFetch
  \/ CopyCreate
  \/ CopySleep
  \/ DryInfo
  \/ DiscEnter
  \/ DiscLoop

Spec == Init /\ [][Next]_vars

(***************************************************************************)
(* The helpers called on their own.  Each action calls one exported helper *)
(* of the client with arguments drawn from the input sets below and        *)
(* records the call and its return value in `fn`.                          *)
(***************************************************************************)
MaxGlobLen == 3
MaxPatterns == 2
MaxTreePages == 3

\* All sequences over `chars` of length at most n.
SeqsUpTo(chars, n) == UNION {[1..k -> chars] : k \in 0..n}

GlobChars == {"*", "?", ".", "a", "B"}
TitleChars == {"a", "b", "."}

\* Globs and titles built around each character the code escapes.
MetaGlobs ==
  UNION {{<<m>>, <<"a", m>>, <<"a", m, "b">>} : m \in RegexMeta}
MetaTitles ==
  MetaGlobs \cup {<<>>, <<"a">>, <<"b">>, <<"a", "a">>, <<"a", "b">>}

GlobFileName == <<"f", "i", "l", "e", ".", "n", "a", "m", "e", "*">>
TitleFileNameV1 == <<"f", "i", "l", "e", ".", "n", "a", "m", "e", ".", "v", "1">>
TitleFileXName == <<"f", "i", "l", "e", "x", "n", "a", "m", "e">>
GlobDraft == <<"[", "d", "r", "a", "f", "t", "]", "?">>
TitleDraft1 == <<"[", "d", "r", "a", "f", "t", "]", "1">>
TitleDraftAB == <<"[", "d", "r", "a", "f", "t", "]", "A", "B">>

GlobInputs ==
  (SeqsUpTo(GlobChars, MaxGlobLen) \X SeqsUpTo(TitleChars, MaxGlobLen))
  \cup (MetaGlobs \X MetaTitles)
  \cup ({GlobFileName, GlobDraft}
        \X {TitleFileNameV1, TitleFileXName, TitleDraft1, TitleDraftAB})

\* The globs and titles of the pattern lists.
ListGlobs == {<<"a", "*">>, <<"?">>, <<"B">>, <<>>}
ListTitles == SeqsUpTo({"a", "b"}, 2)

\* Pattern lists of glob strings and compiled patterns, with the globs they
\* were written as.
PatternLists ==
  {[globs |-> globs,
    items |-> [k \in 1..Len(globs) |->
                 IF pre[k] THEN globToRegExp(globs[k]) ELSE GlobString(globs[k])]] :
   globs \in SeqsUpTo(ListGlobs, MaxPatterns), pre \in [1..MaxPatterns -> BOOLEAN]}

ExcludeInputs ==
  {[value |-> JsNull, globs |-> <<>>], [value |-> JsUndefined, globs |-> <<>>]}
  \cup {[value |-> JsArray(l.items), globs |-> l.globs] : l \in PatternLists}

MatchInputs ==
  {[value |-> JsNull, globs |-> <<>>], [value |-> JsUndefined, globs |-> <<>>]}
  \cup {[value |-> JsString(g), globs |-> <<g>>] : g \in ListGlobs}
  \cup {[value |-> JsArray([k \in 1..Len(globs) |-> GlobString(globs[k])]),
         globs |-> globs] : globs \in SeqsUpTo(ListGlobs, MaxPatterns)}

\* Page lists of buildPageTree: distinct ids other than the root's, in any
\* order; a parentId is absent, the root, another page of the list, the page
\* itself, or a page that is not in the list.
TreePageIds == 2..(MaxTreePages + 1)
TreeParentIds == {Null, SourceRoot, TargetPage} \cup TreePageIds
\* The lists of n distinct page ids.
TreeIdLists(n) ==
  {ids \in [1..n -> TreePageIds] : \A i, j \in 1..n : i # j => ids[i] # ids[j]}

\* The page list with the given ids and parentIds.
TreePages(ids, par) ==
  [k \in 1..Len(ids) |-> [id |-> ids[k], title |-> <<>>, parentId |-> par[k]]]

InitFn ==
  /\ repo = [p \in {TargetPage} \cup SourcePages |->
               IF p = TargetPage
               THEN StoredPage(TitleTarget, Null, SourceBody(p), SpaceOf(p))
               ELSE IF p = SourceRoot
               THEN StoredPage(TitleDocs, Null, SourceBody(p), SpaceOf(p))
               ELSE StoredPage(TitleApi, SourceRoot, SourceBody(p), SpaceOf(p))]
  /\ phase = "idle"
  /\ opts = NoOpts
  /\ stack = <<>>
  /\ result = NoResult
  /\ copyStatus = "notCalled"
  /\ calls = <<>>
  /\ exitCode = Null
  /\ dryOut = NoDryOut
  /\ fn = NoFn
  /\ progress = <<>>
  /\ config = "notLoaded"

\* globToRegExp(pattern).test(title)
GlobTest ==
  /\ fn.name = "none"
  /\ \E in \in GlobInputs :
       fn' = [name |-> "globToRegExp", args |-> in,
              ret |-> RegExpTest(globToRegExp(in[1]), in[2])]
  /\ UNCHANGED <<repo, phase, opts, stack, result, copyStatus, calls, exitCode, dryOut,
               progress, config>>

\* shouldExcludePage(title, excludePatterns)
ExcludeTest ==
  /\ fn.name = "none"
  /\ \E title \in ListTitles, in \in ExcludeInputs :
       fn' = [name |-> "shouldExcludePage", args |-> <<title, in.value, in.globs>>,
              ret |-> shouldExcludePage(title, in.value)]
  /\ UNCHANGED <<repo, phase, opts, stack, result, copyStatus, calls, exitCode, dryOut,
               progress, config>>

\* matchesPattern(value, patterns)
MatchTest ==
  /\ fn.name = "none"
  /\ \E value \in ListTitles, in \in MatchInputs :
       fn' = [name |-> "matchesPattern", args |-> <<value, in.value, in.globs>>,
              ret |-> matchesPattern(value, in.value)]
  /\ UNCHANGED <<repo, phase, opts, stack, result, copyStatus, calls, exitCode, dryOut,
               progress, config>>

\* buildPageTree(pages, rootPageId)
TreeTest ==
  /\ fn.name = "none"
  /\ \E n \in 0..MaxTreePages :
       \E ids \in TreeIdLists(n), par \in [1..n -> TreeParentIds] :
         LET pages == TreePages(ids, par) IN
         fn' = [name |-> "buildPageTree", args |-> <<pages, SourceRoot>>,
                ret |-> buildPageTree(pages, SourceRoot)]
  /\ UNCHANGED <<repo, phase, opts, stack, result, copyStatus, calls, exitCode, dryOut,
               progress, config>>

NextFn ==
  \/ GlobTest
  \/ ExcludeTest
  \/ MatchTest
  \/ TreeTest

SpecFn == InitFn /\ [][NextFn]_vars

(***************************************************************************)
(* Vocabulary of the properties.                                           *)
(***************************************************************************)
CallIdx(op) == {k \in 1..Len(calls) : calls[k].op = op}
Issued(op, p) == \E k \in CallIdx(op) : calls[k].page = p
Succeeded(op, p) == \E k \in CallIdx(op) : calls[k].page = p /\ calls[k].ok
FailedCall(op, p) == \E k \in CallIdx(op) : calls[k].page = p /\ ~calls[k].ok
AnyCallFor(p) ==
  \E k \in 1..Len(calls) : calls[k].op # "sleep" /\ calls[k].page = p
AllCallsOk == \A k \in 1..Len(calls) : calls[k].ok

LiveRun == copyStatus # "notCalled"
Returned == copyStatus = "returned"

\* The source page a created page is the copy of.
SrcOf(pageId) ==
  calls[CHOOSE k \in 1..Len(calls) :
          calls[k].op = "createChildPage" /\ calls[k].id = pageId].page
CopiedIdx == 1..Len(result.copiedPages)
CopiedSources == {SrcOf(result.copiedPages[j].id) : j \in CopiedIdx}
FailureIds == {result.failures[j].id : j \in 1..Len(result.failures)}

\* The source tree as it was given (created pages are not source pages).
SrcParent(p) == repo[p].parent
SrcChildren(p) == {q \in SourcePages : SrcParent(q) = p}
RECURSIVE SrcDepth(_)
SrcDepth(p) == IF p = SourceRoot THEN 0 ELSE 1 + SrcDepth(SrcParent(p))
RECURSIVE AncestorsOrSelf(_)
AncestorsOrSelf(p) ==
  IF p = SourceRoot THEN {SourceRoot} ELSE {p} \cup AncestorsOrSelf(SrcParent(p))
Descendants(p) == {q \in SourcePages : q # p /\ p \in AncestorsOrSelf(q)}

(***************************************************************************)
(* Hierarchy, disjointness, exclusion, failures.                           *)
(***************************************************************************)
\* The entry of copiedPages that is the copy of source page p.
HasCopy(p) == \E j \in CopiedIdx : SrcOf(result.copiedPages[j].id) = p
CopyOf(p) ==
  result.copiedPages[CHOOSE j \in CopiedIdx : SrcOf(result.copiedPages[j].id) = p]

\* C1: hierarchy preservation.  Every page of copiedPages other than the
\* root copy is the copy of a source page whose source parent also has a
\* copy in copiedPages, and it was created (and is stored) with that copy's
\* id as its parent; so children of the source root sit under the new root
\* copy and never directly under targetParentId.
C1_HierarchyPreserved ==
  LiveRun =>
    \A j \in CopiedIdx :
      LET pg == result.copiedPages[j]
          sp == SrcOf(pg.id)
      IN IF j = 1
         THEN sp = opts.sourcePageId /\ pg = result.rootPage
              /\ pg.parentId = opts.targetParentId
         ELSE /\ sp # opts.sourcePageId
              /\ HasCopy(SrcParent(sp))
              /\ pg.parentId = CopyOf(SrcParent(sp)).id
              /\ repo[pg.id].parent = CopyOf(SrcParent(sp)).id
              /\ pg.parentId # opts.targetParentId

\* C1 witness: a returned copy that holds a grandchild of the source root.
C1_Witness ==
  /\ Returned
  /\ \E j \in CopiedIdx :
       LET sp == SrcOf(result.copiedPages[j].id)
       IN sp # SourceRoot /\ SrcParent(sp) # SourceRoot

\* C2 (as claimed): no source page id has both a copy in copiedPages and a
\* record in failures, in any state of a run.
C2_CopiedFailuresDisjoint ==
  LiveRun => CopiedSources \cap FailureIds = {}

\* A source page is skipped by exclusion when it, or one of its ancestors
\* below the source root, has a title matching one of the patterns.
TitleExcluded(p) == shouldExcludePage(repo[p].title, JsArray(opts.excludePatterns))
UnderExcluded(q) ==
  \E p \in AncestorsOrSelf(q) \ {SourceRoot} : TitleExcluded(p)

\* C3: exclusion is subtree-absorbing.  For an excluded child and every
\* descendant of it, no content fetch, no create and no child listing is
\* ever issued, and it appears neither in copiedPages nor in failures.
C3_ExclusionAbsorbsSubtree ==
  LiveRun =>
    \A q \in SourcePages \ {SourceRoot} :
      UnderExcluded(q) =>
        /\ ~AnyCallFor(q)
        /\ q \notin CopiedSources
        /\ q \notin FailureIds

\* C3 witness: A -> [B(excluded), C], B -> [D] copied as {A', C'} only.
C3_Witness ==
  /\ Returned
  /\ NumPages >= 4
  /\ SrcParent(2) = 1 /\ SrcParent(3) = 1 /\ SrcParent(4) = 2
  /\ TitleExcluded(2) /\ ~TitleExcluded(3) /\ ~TitleExcluded(4)
  /\ opts.maxDepth >= 2
  /\ CopiedSources = {1, 3}
  /\ result.failures = <<>>

\* The child's own fetch or create call failed.
CopyFailed(p) == FailedCall("getPageForEdit", p) \/ FailedCall("createChildPage", p)

\* A sibling was processed: skipped as excluded, or its content fetch issued.
Processed(q) == TitleExcluded(q) \/ Issued("getPageForEdit", q)

\* C4: failure is subtree-terminal, not traversal-terminal.  A non-root
\* child whose fetch or create failed has a record in failures, its children
\* are never listed, no call is issued for any descendant, which is in
\* neither list, and once copyPageTree has returned every later sibling has
\* been processed.
C4_FailureSubtreeTerminal ==
  LiveRun =>
    \A p \in SourcePages \ {SourceRoot} :
      CopyFailed(p) =>
        /\ p \in FailureIds
        /\ p \notin CopiedSources
        /\ ~Issued("getChildPages", p)
        /\ \A q \in Descendants(p) :
             ~AnyCallFor(q) /\ q \notin CopiedSources /\ q \notin FailureIds
        /\ Returned =>
             \A q \in SrcChildren(SrcParent(p)) : q > p => Processed(q)

\* C4 witness: A -> [B(fails), C(succeeds)], B -> [D] gives failures = [B]
\* and copiedPages = [A', C'].
C4_Witness ==
  /\ Returned
  /\ NumPages >= 4
  /\ SrcParent(2) = 1 /\ SrcParent(3) = 1 /\ SrcParent(4) = 2
  /\ CopyFailed(2)
  /\ FailureIds = {2} /\ Len(result.failures) = 1
  /\ Len(result.copiedPages) = 2
  /\ CopiedSources = {1, 3}

\* C5 (as claimed): once the root copy has been created copyPageTree never
\* fails: every later failed call (content fetch, create or child listing,
\* that of the source root's children included) is recorded in failures, and
\* the run ends by returning a result.
C5_NeverFailsAfterRoot ==
  Succeeded("createChildPage", SourceRoot) /\ LiveRun =>
    /\ copyStatus # "threw"
    /\ phase = "done" => Returned
    /\ \A k \in 1..Len(calls) :
         ~calls[k].ok => calls[k].page \in FailureIds

(***************************************************************************)
(* Root failure, depth bound, dry run, titles.                             *)
(***************************************************************************)
\* One of the three root calls of copyPageTree failed.
RootStepFailed ==
  \/ FailedCall("getPageForEdit", SourceRoot)
  \/ FailedCall("getPageInfo", SourceRoot)
  \/ FailedCall("createChildPage", SourceRoot)

\* C6: a failed fetch of the source root's content or space, or a failed
\* creation of the root copy, makes copyPageTree fail with no result; the
\* failed call is the last call issued (no child listing, no other create).
C6_RootFailureIsFatal ==
  LiveRun /\ RootStepFailed =>
    /\ copyStatus = "threw"
    /\ phase = "done" /\ exitCode = 1
    /\ result = NoResult
    /\ ~calls[Len(calls)].ok
    /\ \A k \in 1..(Len(calls) - 1) : calls[k].ok
    /\ CallIdx("getChildPages") = {}
    /\ CallIdx("createChildPage") \subseteq {Len(calls)}
    /\ stack = <<>>

\* C6 witness: the creation of the root copy failed.
C6_Witness ==
  /\ LiveRun
  /\ FailedCall("createChildPage", SourceRoot)
  /\ copyStatus = "threw"

\* C7: depth bound.  Children are listed only of source pages fewer than
\* maxDepth levels below the source root; pages are fetched, created and
\* copied only at most maxDepth levels below it; with maxDepth = 0 no
\* listing is issued and only the root is copied.
C7_DepthBound ==
  LiveRun =>
    /\ \A k \in CallIdx("getChildPages") : SrcDepth(calls[k].page) < opts.maxDepth
    /\ \A k \in CallIdx("getPageForEdit") \cup CallIdx("createChildPage") :
         SrcDepth(calls[k].page) <= opts.maxDepth
    /\ \A p \in CopiedSources : SrcDepth(p) <= opts.maxDepth
    /\ opts.maxDepth = 0 =>
         /\ CallIdx("getChildPages") = {}
         /\ CopiedSources \subseteq {SourceRoot}

\* C7 witness: the chain A -> B -> C -> ... with maxDepth = 1 is copied as
\* [A', B'] and no call is issued for C.
C7_Witness ==
  /\ Returned
  /\ \A p \in 2..NumPages : SrcParent(p) = p - 1
  /\ opts.maxDepth = 1
  /\ Len(result.copiedPages) = 2
  /\ CopiedSources = {1, 2}
  /\ ~AnyCallFor(3)

\* C8: a dry run makes no write.  Its only calls are getPageInfo of the
\* source root and child listings, the repository holds the pages it held
\* before, copyPageTree is not called, and if a client was constructed and
\* the reads succeed the command ends with exit code 0 and a count; when no
\* client could be constructed it ends with exit code 1 and no call at all.
C8_DryRunMakesNoWrites ==
  opts.dryRun /\ phase # "idle" =>
    /\ \A k \in 1..Len(calls) :
         \/ calls[k].op = "getPageInfo" /\ calls[k].page = opts.sourcePageId
         \/ calls[k].op = "getChildPages"
    /\ DOMAIN repo = {TargetPage} \cup SourcePages
    /\ copyStatus = "notCalled"
    /\ result = NoResult
    /\ phase = "done" /\ ClientReady(config) /\ AllCallsOk =>
         exitCode = 0 /\ dryOut.count # Null
    /\ ~ClientReady(config) => calls = <<>> /\ exitCode = 1

\* C8 witness: a dry run that completed and reports at least one child page.
C8_Witness ==
  /\ opts.dryRun
  /\ phase = "done"
  /\ exitCode = 0
  /\ dryOut.count >= 1
  /\ CallIdx("getChildPages") # {}

\* C9 (as claimed): when no repository call fails, the count the dry run
\* reported equals the number of descendants the live run of the same
\* command line copied (totalCopied minus the root).
C9_DryRunCountMatchesLive ==
  Returned /\ dryOut.count # Null /\ AllCallsOk =>
    dryOut.count = result.totalCopied - 1

\* C10 (as claimed): the root copy is created with newTitle whenever
\* newTitle is supplied, else with the source title followed by copySuffix;
\* every descendant copy with its source page's title.
C10_TitlesAsClaimed ==
  \A k \in CallIdx("createChildPage") :
    calls[k].title =
      IF calls[k].page = opts.sourcePageId
      THEN IF opts.newTitle.given THEN opts.newTitle.value
           ELSE repo[opts.sourcePageId].title \o opts.copySuffix
      ELSE repo[calls[k].page].title

\* C10 (amended): the root copy is created with newTitle when newTitle is
\* supplied and not the empty string, and otherwise (omitted or empty) with
\* the source root's title followed by copySuffix; every descendant copy is
\* created with its source page's title, and the created pages carry the
\* titles they were created with.
C10_Titles ==
  /\ \A k \in CallIdx("createChildPage") :
       /\ calls[k].title =
            IF calls[k].page = opts.sourcePageId
            THEN IF opts.newTitle.given /\ opts.newTitle.value # <<>>
                 THEN opts.newTitle.value
                 ELSE repo[opts.sourcePageId].title \o opts.copySuffix
            ELSE repo[calls[k].page].title
       /\ calls[k].ok => repo[calls[k].id].title = calls[k].title
  /\ \A j \in CopiedIdx :
       result.copiedPages[j].title = repo[result.copiedPages[j].id].title

\* C10 witness: an empty newTitle with --copy-suffix ".bak": the root copy
\* is "Docs.bak" and a descendant was copied under its own title.
C10_Witness ==
  /\ Returned
  /\ opts.newTitle = Given(<<>>)
  /\ opts.copySuffix = SuffixBak
  /\ result.rootPage.title = TitleDocs \o SuffixBak
  /\ Len(result.copiedPages) >= 2

(***************************************************************************)
(* Properties of the helpers.                                              *)
(***************************************************************************)
\* Two characters that are equal up to the case of a letter.
SameLetter(a, b) ==
  \/ a = b
  \/ \E k \in 1..Len(UpperChars) : {a, b} = {UpperChars[k], LowerChars[k]}

\* What a glob means: the whole title is consumed, "*" stands for any run of
\* characters, "?" for exactly one, every other character for itself up to
\* case.
RECURSIVE GlobSemantics(_, _)
GlobSemantics(glob, title) ==
  IF glob = <<>> THEN title = <<>>
  ELSE IF Head(glob) = "*"
       THEN \E k \in 0..Len(title) :
              GlobSemantics(Tail(glob), SubSeq(title, k + 1, Len(title)))
  ELSE /\ title # <<>>
       /\ Head(glob) = "?" \/ SameLetter(Head(glob), Head(title))
       /\ GlobSemantics(Tail(glob), Tail(title))

\* C11: globToRegExp(pattern) matches a title exactly when the whole title
\* fits the glob, "*" standing for any run of characters, "?" for exactly one
\* character and every other character, regex metacharacters included, for
\* itself up to case; 'file.name*' matches 'file.name.v1' and not 'filexname',
\* '[draft]?' matches '[draft]1' and not '[draft]AB'.
C11_GlobMatchesWholeTitle ==
  fn.name = "globToRegExp" =>
    /\ fn.ret = GlobSemantics(fn.args[1], fn.args[2])
    /\ fn.args = <<GlobFileName, TitleFileNameV1>> => fn.ret
    /\ fn.args = <<GlobFileName, TitleFileXName>> => ~fn.ret
    /\ fn.args = <<GlobDraft, TitleDraft1>> => fn.ret
    /\ fn.args = <<GlobDraft, TitleDraftAB>> => ~fn.ret

\* C11 witness: the glob 'file.name*' was tested against 'filexname', which
\* only an unescaped dot would match, and was rejected.
C11_Witness ==
  /\ fn.name = "globToRegExp"
  /\ fn.args = <<GlobFileName, TitleFileXName>>
  /\ ~fn.ret

\* Some glob of the list, as it was written, fits the title.
SomeGlobFits(globs, title) ==
  \E k \in 1..Len(globs) : GlobSemantics(globs[k], title)

\* C12: shouldExcludePage(title, patterns) is false for every title when
\* patterns is null, undefined or an empty list, and otherwise true exactly
\* when the title matches at least one pattern of the list, whether a pattern
\* is a glob string or a compiled matcher.
C12_ExcludeIsAnyPattern ==
  fn.name = "shouldExcludePage" =>
    LET title == fn.args[1]
        patterns == fn.args[2]
        globs == fn.args[3]
    IN IF patterns.kind \in {"null", "undefined"} \/ Len(globs) = 0
       THEN ~fn.ret
       ELSE fn.ret = SomeGlobFits(globs, title)

\* C12 witness: a list of a glob string and a compiled matcher of which only
\* the second fits the title, and the title is excluded.
C12_Witness ==
  /\ fn.name = "shouldExcludePage"
  /\ fn.args[2].kind = "array"
  /\ Len(fn.args[2].items) = 2
  /\ ~fn.args[2].items[1].compiled
  /\ fn.args[2].items[2].compiled
  /\ ~GlobSemantics(fn.args[3][1], fn.args[1])
  /\ GlobSemantics(fn.args[3][2], fn.args[1])
  /\ fn.ret

\* The globs of a list that are not the empty string.
NonEmptyGlobs(globs) == SelectSeq(globs, LAMBDA g : g # <<>>)

\* C19 as stated: matchesPattern(value, patterns) is true for every value
\* when patterns is null, undefined or an empty list, and otherwise true
\* exactly when value matches at least one of the globs, given as one string
\* or as a list.
C19_MatchesAsClaimed ==
  fn.name = "matchesPattern" =>
    LET value == fn.args[1]
        patterns == fn.args[2]
        globs == fn.args[3]
    IN IF patterns.kind \in {"null", "undefined"}
          \/ (patterns.kind = "array" /\ Len(globs) = 0)
       THEN fn.ret
       ELSE fn.ret = SomeGlobFits(globs, value)

\* C19: matchesPattern(value, patterns) is true for every value when patterns
\* is null, undefined, the empty string, an empty list or a list of empty
\* strings only; otherwise it is true exactly when value matches at least one
\* of the non-empty globs, given as one string or as a list.
C19_MatchesNonEmptyGlobs ==
  fn.name = "matchesPattern" =>
    LET value == fn.args[1]
        patterns == fn.args[2]
        globs == NonEmptyGlobs(fn.args[3])
    IN IF patterns.kind \in {"null", "undefined"} \/ Len(globs) = 0
       THEN fn.ret
       ELSE fn.ret = SomeGlobFits(globs, value)

\* C19 witness: a list whose only glob is the empty string matched a
\* non-empty value.
C19_Witness ==
  /\ fn.name = "matchesPattern"
  /\ fn.args[2].kind = "array"
  /\ fn.args[3] = <<<<>>>>
  /\ fn.args[1] # <<>>
  /\ fn.ret

\* The number of occurrences of an id in a list of ids.
Occurrences(ids, id) == Cardinality({k \in 1..Len(ids) : ids[k] = id})

\* pages [a: parent root, b: parent a, c: parent missing]
TreeExample ==
  <<[id |-> 2, title |-> <<>>, parentId |-> SourceRoot],
    [id |-> 3, title |-> <<>>, parentId |-> 2],
    [id |-> 4, title |-> <<>>, parentId |-> TargetPage]>>

\* C17: buildPageTree(pages, rootId) puts a page at the top level when its
\* parentId is rootId or when no page of the list has its parentId as id, and
\* nests every other page, once, in the children list of the page whose id is
\* its parentId and nowhere else; [a: parent root, b: parent a, c: parent
\* missing] gives top level {a, c} with b under a.
C17_OrphansAtTopLevel ==
  fn.name = "buildPageTree" =>
    LET pages == fn.args[1]
        rootId == fn.args[2]
        tree == fn.ret.tree
        children == fn.ret.children
        ids == {pages[k].id : k \in 1..Len(pages)}
    IN /\ \A k \in 1..Len(pages) :
            LET page == pages[k]
                top == page.parentId = rootId \/ page.parentId \notin ids
            IN IF top
               THEN /\ Occurrences(tree, page.id) = 1
                    /\ \A id \in ids : Occurrences(children[id], page.id) = 0
               ELSE /\ Occurrences(tree, page.id) = 0
                    /\ \A id \in ids :
                         Occurrences(children[id], page.id) =
                           IF id = page.parentId THEN 1 ELSE 0
       /\ pages = TreeExample =>
            /\ tree = <<2, 4>>
            /\ children = (2 :> <<3>>) @@ (3 :> <<>>) @@ (4 :> <<>>)

\* C17 witness: the tree of [a: parent root, b: parent a, c: parent missing]
\* was built, with the orphan c at the top level.
C17_Witness ==
  /\ fn.name = "buildPageTree"
  /\ fn.args[1] = TreeExample
  /\ fn.ret.tree = <<2, 4>>
  /\ fn.ret.children[2] = <<3>>

(***************************************************************************)
(* Exit codes, pacing, discovery, the returned result.                     *)
(***************************************************************************)
\* C13: the copy-tree command exits with code 0 whenever copyPageTree returns
\* a result, failures or not, except with code 1 when --fail-on-error is set
\* and failures is not empty; it exits with code 1 whenever copyPageTree
\* itself fails, as it does when a root step fails.
C13_ExitCodes ==
  LiveRun =>
    /\ phase # "done" => exitCode = Null
    /\ phase = "done" => copyStatus \in {"returned", "threw"}
    /\ phase = "done" /\ Returned =>
         exitCode = IF opts.failOnError /\ Len(result.failures) > 0 THEN 1 ELSE 0
    /\ phase = "done" /\ copyStatus = "threw" => exitCode = 1
    /\ RootStepFailed => copyStatus = "threw"

\* C13 witness: copyPageTree returned a result with a failure, without
\* --fail-on-error, and the command exited with code 0.
C13_Witness ==
  /\ Returned
  /\ phase = "done"
  /\ Len(result.failures) > 0
  /\ ~opts.failOnError
  /\ exitCode = 0

\* Two create calls for siblings under the same parent with no other create
\* call for that parent between them.
ConsecutiveSiblingCreates(i, j) ==
  /\ i < j
  /\ calls[i].op = "createChildPage" /\ calls[j].op = "createChildPage"
  /\ calls[i].page # opts.sourcePageId
  /\ calls[i].parent = calls[j].parent
  /\ \A m \in (i + 1)..(j - 1) :
       ~(calls[m].op = "createChildPage" /\ calls[m].parent = calls[i].parent)

\* C14 (as claimed): when delayMs > 0, between any two consecutive create
\* calls for siblings under the same parent, the earlier one succeeded or
\* failed, there is a pause.
C14_PauseBetweenSiblingCreates ==
  LiveRun /\ opts.delayMs > 0 =>
    \A i, j \in 1..Len(calls) :
      ConsecutiveSiblingCreates(i, j) =>
        \E m \in (i + 1)..(j - 1) : calls[m].op = "sleep"

\* C15: getAllDescendantPages(rootId, maxDepth), when every child listing
\* succeeds, returns exactly the pages 1 to maxDepth levels below rootId,
\* each once, never the root, each with the id of its direct parent as
\* parentId; with maxDepth = 0 the list is empty and no listing is issued,
\* with maxDepth = 1 it holds the direct children only.
C15_DescendantsWithinDepth ==
  opts.dryRun /\ phase = "done" /\ exitCode = 0 =>
    LET found == dryOut.descendants
        within == {q \in SourcePages : 1 <= SrcDepth(q) /\ SrcDepth(q) <= opts.maxDepth}
    IN /\ {found[k].id : k \in 1..Len(found)} = within
       /\ Len(found) = Cardinality(within)
       /\ \A k \in 1..Len(found) :
            /\ found[k].id # opts.sourcePageId
            /\ found[k].parentId = SrcParent(found[k].id)
       /\ opts.maxDepth = 0 => found = <<>> /\ CallIdx("getChildPages") = {}
       /\ opts.maxDepth = 1 =>
            {found[k].id : k \in 1..Len(found)} = SrcChildren(opts.sourcePageId)

\* C15 witness: a discovery that stopped at depth 1 above deeper pages, and
\* one that returned a grandchild with its parent.
C15_Witness ==
  /\ opts.dryRun /\ phase = "done" /\ exitCode = 0
  /\ opts.maxDepth = 2
  /\ \E k \in 1..Len(dryOut.descendants) :
       /\ SrcDepth(dryOut.descendants[k].id) = 2
       /\ dryOut.descendants[k].parentId # opts.sourcePageId
  /\ \E q \in SourcePages : SrcDepth(q) = 3

\* C16 (as claimed): when a child listing fails during discovery, discovery
\* still returns a list, which holds every page found outside the subtree of
\* the node whose listing failed.
C16_FailedListingOmitsSubtree ==
  opts.dryRun /\ phase = "done" /\ (\E p \in SourcePages : FailedCall("getChildPages", p)) =>
    /\ dryOut.count # Null
    /\ exitCode = 0
    /\ \A q \in SourcePages :
         (/\ 1 <= SrcDepth(q) /\ SrcDepth(q) <= opts.maxDepth
          /\ \A p \in AncestorsOrSelf(q) \ {q} : ~FailedCall("getChildPages", p))
         => \E k \in 1..Len(dryOut.descendants) : dryOut.descendants[k].id = q

\* The ids the successful create calls returned, in call order.
RECURSIVE CreatedIds(_)
CreatedIds(log) ==
  IF log = <<>> THEN <<>>
  ELSE (IF Head(log).op = "createChildPage" /\ Head(log).ok THEN <<Head(log).id>> ELSE <<>>)
       \o CreatedIds(Tail(log))

\* C18: when copyPageTree returns, totalCopied is the length of copiedPages,
\* rootPage is the first element of copiedPages, and copiedPages holds
\* exactly the pages whose create call succeeded, each once, the root first.
C18_ResultCountsCreatedPages ==
  Returned =>
    /\ result.totalCopied = Len(result.copiedPages)
    /\ result.rootPage = result.copiedPages[1]
    /\ SrcOf(result.rootPage.id) = opts.sourcePageId
    /\ [j \in CopiedIdx |-> result.copiedPages[j].id] = CreatedIds(calls)
    /\ \A i, j \in CopiedIdx : i # j => result.copiedPages[i].id # result.copiedPages[j].id

\* C18 witness: a returned result of the root and two more copies, with a
\* create call that failed.
C18_Witness ==
  /\ Returned
  /\ result.totalCopied = 3
  /\ \E k \in CallIdx("createChildPage") : ~calls[k].ok

\* C20 (as claimed): a pause is taken only after the subtree of the child
\* just created has been copied: after a pause no call lists the children of
\* that child and no call fetches or creates one of its descendants.
C20_PauseAfterSubtree ==
  LiveRun =>
    \A k \in CallIdx("sleep") :
      LET child == calls[k - 1].page IN
      \A j \in (k + 1)..Len(calls) :
        /\ ~(calls[j].op = "getChildPages" /\ calls[j].page = child)
        /\ calls[j].op # "sleep" => calls[j].page \notin Descendants(child)

(***************************************************************************)
(* Retries, ordering, writes, accounting.                                  *)
(***************************************************************************)
\* The calls of one kind issued for one page.
CallsFor(op, p) == {k \in 1..Len(calls) : calls[k].op = op /\ calls[k].page = p}

\* C21: on a tree-shaped source at most one content fetch and at most one
\* create call is issued per source page; a page whose fetch failed is not
\* created, a page whose fetch or create failed is not attempted again, and
\* no page has two copies.
C21_NoRetry ==
  LiveRun =>
    \A p \in SourcePages :
      /\ Cardinality(CallsFor("getPageForEdit", p)) <= 1
      /\ Cardinality(CallsFor("createChildPage", p)) <= 1
      /\ FailedCall("getPageForEdit", p) => ~Issued("createChildPage", p)
      /\ Cardinality({j \in CopiedIdx : SrcOf(result.copiedPages[j].id) = p}) <= 1

\* C21 witness: a create call failed, the run went on with other calls and
\* returned, and the page was not tried again.
C21_Witness ==
  /\ Returned
  /\ \E k \in CallIdx("createChildPage") :
       /\ ~calls[k].ok
       /\ k < Len(calls)
       /\ Cardinality(CallsFor("createChildPage", calls[k].page)) = 1

\* Sibling a is listed before sibling b by the child listing of their parent.
ListedBefore(a, b) ==
  /\ a # b
  /\ SrcParent(a) = SrcParent(b)
  /\ LET listed == getChildPages(repo, SrcParent(a))
     IN \E i, j \in 1..Len(listed) : i < j /\ listed[i].id = a /\ listed[j].id = b

\* The calls about a page or one of its descendants.
SubtreeCalls(p) ==
  LET subtree == {p} \cup Descendants(p)
  IN {k \in 1..Len(calls) : calls[k].op # "sleep" /\ calls[k].page \in subtree}

\* C22: calls are issued one at a time and children are processed in listing
\* order.  Only the innermost activation of the recursion is running, every
\* other one waits for the call it made; and every call about a child or its
\* subtree comes before every call about a sibling listed after it.
C22_OneAtATimeInListingOrder ==
  LiveRun =>
    /\ \A k \in 1..(Len(stack) - 1) : stack[k].pc = "wait"
    /\ \A a, b \in SourcePages \ {SourceRoot} :
         ListedBefore(a, b) =>
           LET callsA == SubtreeCalls(a)
               callsB == SubtreeCalls(b)
           IN \A i \in callsA, j \in callsB : i < j

\* C22 witness: two siblings with calls each, the first with a child of its
\* own that was copied before the second sibling was fetched.
C22_Witness ==
  /\ Returned
  /\ \E a, b \in SourcePages \ {SourceRoot} :
       /\ ListedBefore(a, b)
       /\ \E d \in SrcChildren(a) : Succeeded("createChildPage", d)
       /\ Succeeded("createChildPage", b)

\* The pages created by the calls so far.
CreatedSoFar == {calls[k].id : k \in {i \in CallIdx("createChildPage") : calls[i].ok}}

\* C25: copyPageTree only ever creates pages.  No step removes a page or
\* changes the title or the parent of a page that exists; a step that changes
\* the repository adds exactly one page, the one its create call returned,
\* under targetParentId or under a page created earlier in the run.
C25_OnlyCreates ==
  [][/\ \A p \in DOMAIN repo : p \in DOMAIN repo' /\ repo'[p] = repo[p]
     /\ repo' # repo =>
          LET last == calls'[Len(calls')] IN
          /\ Len(calls') = Len(calls) + 1
          /\ last.op = "createChildPage" /\ last.ok
          /\ DOMAIN repo' = DOMAIN repo \cup {last.id}
          /\ last.id \notin DOMAIN repo
          /\ repo'[last.id].parent = last.parent
          /\ last.parent \in {opts.targetParentId} \cup CreatedSoFar]_vars

\* C25 witness: a run that created the root copy and two more pages, with
\* the source pages and the target parent still in the repository.
C25_Witness ==
  /\ Returned
  /\ Len(result.copiedPages) >= 3
  /\ {TargetPage} \cup SourcePages \subseteq DOMAIN repo
  /\ \A j \in CopiedIdx : result.copiedPages[j].id \in DOMAIN repo \ SourcePages

\* C26: a descendant's create call is issued only after the create call of
\* its parent's copy succeeded, and under that copy; so in copiedPages every
\* page other than the root stands after its parent copy, and the source
\* pages of copiedPages stand in depth-first pre-order.
C26_ParentCopiedFirst ==
  LiveRun =>
    /\ \A k \in CallIdx("createChildPage") :
         calls[k].page # opts.sourcePageId =>
           \E i \in 1..(k - 1) :
             /\ calls[i].op = "createChildPage" /\ calls[i].ok
             /\ calls[i].page = SrcParent(calls[k].page)
             /\ calls[i].id = calls[k].parent
    /\ \A j \in CopiedIdx \ {1} :
         \E i \in 1..(j - 1) : result.copiedPages[i].id = result.copiedPages[j].parentId
    /\ \A i, j \in CopiedIdx :
         i < j =>
           LET a == SrcOf(result.copiedPages[i].id)
               b == SrcOf(result.copiedPages[j].id)
           IN \/ a \in AncestorsOrSelf(b) \ {b}
              \/ \E x \in AncestorsOrSelf(a), y \in AncestorsOrSelf(b) : ListedBefore(x, y)

\* C26 witness: a grandchild of the source root was copied.
C26_Witness ==
  /\ Returned
  /\ \E j \in CopiedIdx : SrcDepth(SrcOf(result.copiedPages[j].id)) = 2

\* C27: when copyPageTree returns, every child a successful listing returned
\* was skipped as excluded, or has a copy in copiedPages, or has a record in
\* failures.
C27_ListedChildrenAccounted ==
  Returned =>
    \A k \in CallIdx("getChildPages") :
      calls[k].ok =>
        \A q \in SrcChildren(calls[k].page) :
          TitleExcluded(q) \/ HasCopy(q) \/ q \in FailureIds

\* C27 witness: one listing returned an excluded child, a copied child and a
\* failed child.
C27_Witness ==
  /\ Returned
  /\ \E p \in SourcePages :
       /\ Succeeded("getChildPages", p)
       /\ \E q \in SrcChildren(p) : TitleExcluded(q)
       /\ \E q \in SrcChildren(p) : HasCopy(q) /\ q \notin FailureIds
       /\ \E q \in SrcChildren(p) : q \in FailureIds /\ ~HasCopy(q)

\* C23: every create call carries the body read from its source page,
\* unchanged and as storage format, and the space key of the source root,
\* whatever space the source page itself reports; the page created holds that
\* body and lies in that space.
C23_BodyAndSpaceCarried ==
  LiveRun =>
    \A k \in CallIdx("createChildPage") :
      /\ calls[k].content = repo[calls[k].page].content
      /\ calls[k].format = "storage"
      /\ calls[k].space = repo[opts.sourcePageId].space
      /\ calls[k].ok =>
           /\ repo[calls[k].id].content = repo[calls[k].page].content
           /\ repo[calls[k].id].space = repo[opts.sourcePageId].space

\* C23 witness: a source page that reports another space than the source
\* root was copied.
C23_Witness ==
  /\ Returned
  /\ \E k \in CallIdx("createChildPage") :
       /\ calls[k].ok
       /\ repo[calls[k].page].space # repo[opts.sourcePageId].space
       /\ repo[calls[k].id].space = "DOCS"

(***************************************************************************)
(* copyPageTree called with an onProgress sink and the quiet flag of the   *)
(* caller's choice.                                                        *)
(***************************************************************************)
\* The options of a call of copyPageTree besides the sink: every depth, with
\* and without an exclusion pattern.
CallOptions ==
  {CommandLine(Omitted, d, x, DefaultDelayMs, SuffixCopy, FALSE, FALSE) :
     d \in 0..MaxDepthBound, x \in {<<>>, <<GlobString(PatternTemp)>>}}

\* const { ..., onProgress = null, quiet = false, ... } = options
CopyTreeWithSink ==
  /\ phase = "idle"
  /\ \E cmd \in CallOptions, sink \in Sinks, quiet \in BOOLEAN :
       opts' = [cmd EXCEPT !.onProgress = sink, !.quiet = quiet]
  /\ phase' = "fetchRoot"
  /\ copyStatus' = "running"
  /\ config' = "loaded"
  /\ UNCHANGED <<repo, stack, result, calls, exitCode, dryOut, fn, progress>>

\* copyPageTree called by a program with the options above and no sink.
CopyTreeCall ==
  /\ phase = "idle"
  /\ \E cmd \in CallOptions :
       opts' = [cmd EXCEPT !.onProgress = "none"]
  /\ phase' = "fetchRoot"
  /\ copyStatus' = "running"
  /\ config' = "loaded"
  /\ UNCHANGED <<repo, stack, result, calls, exitCode, dryOut, fn, progress>>

NextCall ==
  \/ CopyTreeCall
  \/ FetchRoot
  \/ InfoRoot
  \/ CreateRoot
  \/ CopyEnter
  \/ CopyLoop
  \/ CopyFetch
  \/ CopyCreate
  \/ CopySleep

SpecCall == Init /\ [][NextCall]_vars

NextSink ==
  \/ CopyTreeWithSink
  \/ FetchRoot
  \/ InfoRoot
  \/ CreateRoot
  \/ CopyEnter
  \/ CopyLoop
  \/ CopyFetch
  \/ CopyCreate
  \/ CopySleep

SpecSink == Init /\ [][NextSink]_vars

\* The sink was invoked in this run.
SinkInvoked == progress # <<>>

\* The run ended by throwing although no repository call of it failed.
ThrewWithoutFailedCall ==
  /\ phase = "done"
  /\ copyStatus = "threw"
  /\ \A k \in 1..Len(calls) : calls[k].ok

\* C24 (as claimed): the onProgress sink is observational.  With no sink a
\* run throws only when one of its repository calls failed, so for the same
\* repository behaviour a run with a sink, whatever the sink does, throws
\* only then too; and when quiet is set the sink is never invoked.
C24_SinkIsObservational ==
  /\ opts.quiet => ~SinkInvoked
  /\ ~ThrewWithoutFailedCall

\* The part of C24 that holds: when quiet is set the sink is never invoked,
\* and a sink that returns leaves the run's outcome to the repository calls.
C24_QuietAndReturningSinks ==
  /\ opts.quiet => ~SinkInvoked
  /\ opts.onProgress # "throws" \/ opts.quiet => ~ThrewWithoutFailedCall

(***************************************************************************)
(* Cyclic child listings: a repository whose listings put the source root  *)
(* among its own descendants.                                              *)
(***************************************************************************)
\* The parent maps with a cycle of listings through the source root, one for
\* every length of the cycle: the pages form the chain 1, 2, 3, ... and the
\* root is in turn listed as a child of page q, beside q's own child.  With
\* q = 1 the root is listed among its own children.
CyclicParentMaps ==
  {[p \in SourcePages |-> IF p = SourceRoot THEN q ELSE p - 1] : q \in SourcePages}

InitCyclic ==
  /\ \E par \in CyclicParentMaps :
       repo = [p \in {TargetPage} \cup SourcePages |->
                 IF p = TargetPage
                 THEN StoredPage(TitleTarget, Null, SourceBody(p), SpaceOf(p))
                 ELSE StoredPage(IF p = SourceRoot THEN TitleDocs ELSE TitleApi,
                                 par[p], SourceBody(p), SpaceOf(p))]
  /\ phase = "idle"
  /\ opts = NoOpts
  /\ stack = <<>>
  /\ result = NoResult
  /\ copyStatus = "notCalled"
  /\ calls = <<>>
  /\ exitCode = Null
  /\ dryOut = NoDryOut
  /\ fn = NoFn
  /\ progress = <<>>
  /\ config = "notLoaded"

\* The command lines tried on cyclic listings: every depth, live and dry-run.
DepthCommandLines ==
  {CommandLine(Omitted, d, <<>>, DefaultDelayMs, SuffixCopy, dry, FALSE) :
     d \in 0..MaxDepthBound, dry \in BOOLEAN}

\* The copy-tree action up to its first repository call.
CopyTreeDepthCmd ==
  /\ phase = "idle"
  /\ \E cmd \in DepthCommandLines, cfg \in ConfigOutcomes : CommandStarts(cmd, cfg)
  /\ UNCHANGED <<repo, stack, result, calls, dryOut, fn, progress>>

NextCyclic ==
  \/ CopyTreeDepthCmd
  \/ FetchRoot
  \/ InfoRoot
  \/ CreateRoot
  \/ CopyEnter
  \/ CopyLoop
  \/ CopyFetch
  \/ CopyCreate
  \/ CopySleep
  \/ DryInfo
  \/ DiscEnter
  \/ DiscLoop

\* Every repository call returns or fails: a step that is possible is
\* eventually taken.
SpecCyclic == InitCyclic /\ [][NextCyclic]_vars /\ WF_vars(NextCyclic)

\* Activation k of the recursion runs at depth k - 1, which is at most
\* maxDepth.
RecursionWithinDepth ==
  \A k \in 1..Len(stack) : stack[k].depth = k - 1 /\ stack[k].depth <= opts.maxDepth

\* The listing calls are issued for pages fewer than maxDepth levels down.
ListingsWithinDepth ==
  phase \in {"copying", "discover"} /\ stack # <<>> /\ Top(stack).pc # "enter"
    => Top(stack).depth < opts.maxDepth

\* Some page was listed as a child after it had been listed already: the
\* listings followed from the root came back to a page.
ListedAgain ==
  \E j, k \in 1..Len(calls) :
    /\ j < k
    /\ calls[j].op = "getChildPages" /\ calls[j].ok
    /\ calls[k].op = "getChildPages" /\ calls[k].ok
    /\ \E n \in 1..Len(getChildPages(repo, calls[k].page)) :
         getChildPages(repo, calls[k].page)[n].id = calls[j].page

\* C28: on cyclic child listings the recursion of copyPageTree and of
\* getAllDescendantPages never goes deeper than maxDepth levels, and a
\* command that was started ends, provided every repository call returns or
\* fails.
C28_TerminatesOnCycles ==
  /\ [](RecursionWithinDepth /\ ListingsWithinDepth)
  /\ (phase # "idle") ~> (phase = "done")

\* C28 witness: a run on cyclic listings that went down to maxDepth levels,
\* listed a page again, and ended.
C28_Witness ==
  /\ phase = "done"
  /\ exitCode = 0
  /\ opts.maxDepth = MaxDepthBound
  /\ ListedAgain

(***************************************************************************)
(* The forest of buildPageTree.                                            *)
(***************************************************************************)
\* The ids of the nodes met going down from the nodes `from` through at
\* most n levels of children arrays.
RECURSIVE ForestIds(_, _, _)
ForestIds(children, from, n) ==
  IF n = 0 THEN from
  ELSE ForestIds(children,
                 from \cup UNION {{children[id][k] : k \in 1..Len(children[id])} : id \in from},
                 n - 1)

\* The nodes of the returned forest: the top-level nodes and everything
\* nested under them, at any depth.
InForest(ret, n) ==
  ForestIds(ret.children, {ret.tree[k] : k \in 1..Len(ret.tree)}, n)

\* Following parentId from a page of the list leads out of the list (to the
\* root, to no parent or to a missing page) and never back to a page.
RECURSIVE LeadsOut(_, _, _)
LeadsOut(pages, id, n) ==
  IF ~InPageMap(pages, id) THEN TRUE
  ELSE IF n = 0 THEN FALSE
  ELSE LeadsOut(pages, pages[CHOOSE k \in 1..Len(pages) : pages[k].id = id].parentId, n - 1)

AcyclicParents(pages) == \A k \in 1..Len(pages) : LeadsOut(pages, pages[k].id, Len(pages))

\* Page `id` is once in the lists of the forest that can be reached from the
\* top level.
OnceInForest(ret, id, n) ==
  /\ id \in InForest(ret, n)
  /\ Occurrences(ret.tree, id)
       + Cardinality({p \in InForest(ret, n) : Occurrences(ret.children[p], id) > 0}) = 1
  /\ \A p \in InForest(ret, n) : Occurrences(ret.children[p], id) <= 1

\* C29 (as claimed): for any list of pages with distinct ids and any parentId
\* values, every page of the list is exactly once in the forest buildPageTree
\* returns, at the top level or nested under a top-level node.
C29_EveryPageOnceInForest ==
  fn.name = "buildPageTree" =>
    \A k \in 1..Len(fn.args[1]) :
      OnceInForest(fn.ret, fn.args[1][k].id, Len(fn.args[1]))

\* The part of C29 that holds: when the parentIds of the list do not lead
\* back to a page, every page is exactly once in the forest.
C29_OnceWhenAcyclic ==
  fn.name = "buildPageTree" /\ AcyclicParents(fn.args[1]) =>
    \A k \in 1..Len(fn.args[1]) :
      OnceInForest(fn.ret, fn.args[1][k].id, Len(fn.args[1]))

(***************************************************************************)
(* copyPageTree with a target parent of the caller's choice, which may lie *)
(* inside the source subtree.                                              *)
(***************************************************************************)
\* The target parents tried: the page outside the source tree and every
\* page of the source tree.
TargetParents == {TargetPage} \cup SourcePages

\* copyPageTree(sourcePageId, targetParentId, null, { maxDepth })
CopyTreeInto ==
  /\ phase = "idle"
  /\ \E d \in 0..MaxDepthBound, target \in TargetParents :
       opts' = [CommandLine(Omitted, d, <<>>, DefaultDelayMs, SuffixCopy, FALSE, FALSE)
                  EXCEPT !.targetParentId = target]
  /\ phase' = "fetchRoot"
  /\ copyStatus' = "running"
  /\ config' = "loaded"
  /\ UNCHANGED <<repo, stack, result, calls, exitCode, dryOut, fn, progress>>

NextNested ==
  \/ CopyTreeInto
  \/ FetchRoot
  \/ InfoRoot
  \/ CreateRoot
  \/ CopyEnter
  \/ CopyLoop
  \/ CopyFetch
  \/ CopyCreate
  \/ CopySleep

SpecNested == Init /\ [][NextNested]_vars

\* C30 (as claimed): whatever the target parent, every page of copiedPages is
\* a copy of a page that was in the source subtree when copyPageTree
\* started, and the pages fetched to be copied are such pages: no page
\* created during the run is taken as a source.
C30_CopiesOnlySourcePages ==
  /\ CopiedSources \subseteq SourcePages
  /\ \A k \in CallIdx("getPageForEdit") \cup CallIdx("getChildPages") :
       calls[k].page \in SourcePages

\* The part of C30 that holds: with the target parent outside the source
\* subtree only pages of the source subtree are copied.
C30_OutsideTargetCopiesSources ==
  opts.targetParentId \notin SourcePages => C30_CopiesOnlySourcePages

====
